---------------------------- MODULE Spec2Model ----------------------------
(***************************************************************************)
(* State-machine model of the replay engine in src/engine.py: the          *)
(* ReplayDataHandler bar source, the indicator registry, the two pipeline  *)
(* threads started by TradingEngine.connect (FetchMarketDataThread and     *)
(* ProcessMarketDataThread) and the controller thread that calls           *)
(* add_indicator, connect and stop.  Every shared read or write of the     *)
(* Python code (queue operation, Event test, attribute write, dict         *)
(* iteration step) is one atomic step; the interpreter may switch threads  *)
(* between any two of them.                                                *)
(*                                                                         *)
(* Prices are kept exactly, as integer counts of 1e-9 (the unit of the CSV *)
(* columns, engine.py:154-157); a moving-average value is the exact        *)
(* rational [num, den].                                                    *)
(***************************************************************************)
EXTENDS Integers, Sequences, FiniteSets, TLC

\* ------------------------------------------------------------- bounds
\* Longest CSV file (number of rows) the model replays.
MaxRows == 2
\* Most add_indicator calls the controller makes.
MaxAdds == 2
\* Most connect() calls the controller makes.
MaxConnects == 2
\* Longest averaging period and most update calls in the check of
\* SimpleMovingAverage on its own.
MaxPeriod == 3
MaxUpdates == 4

\* ------------------------------------------------------- data (inputs)
\* Python's None (a record, so that it compares with bars and snapshots).
None == [none |-> TRUE]
\* numpy.nan (a record, so that it compares with the rational values).
NaN == [nan |-> TRUE]

\* The symbol the engine is constructed with (run_engine.py:4).
EngineSymbol == "MNQZ4"

\* The kinds of CSV row a file may hold: a well-formed row of the engine's
\* symbol, a well-formed row of another symbol, and a row whose columns do
\* not parse (the read raises).
RowKinds == {"bar", "other", "malformed"}

\* Row number i of a file, of the given kind.  ts_event is the row number,
\* so the timestamps of a file are strictly increasing; the prices differ
\* from row to row.
CsvRow(kind, i) ==
  [ts_event |-> i, open |-> 10 * i - 1, high |-> 10 * i + 2,
   low |-> 10 * i - 3, close |-> 10 * i, volume |-> i,
   symbol |-> IF kind = "other" THEN "ESZ4" ELSE EngineSymbol,
   malformed |-> (kind = "malformed")]

\* The CSV files replayed: every sequence of at most MaxRows rows.
CsvFiles ==
  UNION { { [i \in 1..n |-> CsvRow(kinds[i], i)] : kinds \in [1..n -> RowKinds] }
          : n \in 0..MaxRows }

\* The indicator objects the caller may construct: SimpleMovingAverage
\* instances; 2 and 3 are distinct objects with the same name.
IndicatorPool ==
  { [id |-> 1, period |-> 1, applied_on |-> "open"],
    [id |-> 2, period |-> 2, applied_on |-> "close"],
    [id |-> 3, period |-> 2, applied_on |-> "close"] }

IndicatorIds == { i.id : i \in IndicatorPool }

\* SimpleMovingAverage.name: f"SMA_{period}_{applied_on}".
IndicatorName(ind) == <<"SMA", ind.period, ind.applied_on>>

\* ------------------------------------------------------------ variables
VARIABLES
  rows,            \* the CSV file behind data_handler.data_iterator
  data_pos,        \* rows the iterator has consumed
  incoming,        \* incoming_bar_event_queue
  processed,       \* processed_bar_event_queue
  indicators,      \* self.indicators: insertion-ordered <<name, object>> items
  sma,             \* per indicator object: [values, current]
  stop_event,      \* self._stop_event.is_set()
  graceful_stop,   \* self._graceful_stop
  ctl_pc,          \* the controller thread's position
  fetch_pc,        \* FetchMarketDataThread's position
  fetch_bar,       \* its local `bar`
  proc_pc,         \* ProcessMarketDataThread's position
  proc_bar,        \* its local `bar_event_message`
  proc_iter,       \* its dict iterator: [used, idx]
  proc_values,     \* its local `indicator_values`
  \* history (observation only; never read by an action's guard or effect)
  enq_log,         \* ts of the bars Ingestion put on incoming, in order
  deq_log,         \* ts of the bars Processing got from incoming, in order
  swept,           \* ts of the bars stop()'s sweep removed
  update_log,      \* <<indicator id, ts>> of every Indicator.update call
  add_log,         \* the indicator objects passed to add_indicator, in order
  source_calls,    \* number of get_next_bar calls made by Ingestion
  eos_calls,       \* source_calls when get_next_bar first returned None, else 0
  at_call,         \* snapshot when stop() was called
  at_set,          \* snapshot when stop() set the stop event
  \* threads whose handles a later connect() overwrote (they run on, unjoined)
  orphan_fetch,    \* sequence of [pc, bar]
  orphan_proc,     \* sequence of [pc, bar, iter, values]
  stop_returned    \* history: some stop() call has returned

vars == << rows, data_pos, incoming, processed, indicators, sma, stop_event,
           graceful_stop, ctl_pc, fetch_pc, fetch_bar, proc_pc, proc_bar,
           proc_iter, proc_values, enq_log, deq_log, swept, update_log,
           add_log, source_calls, eos_calls, at_call, at_set,
           orphan_fetch, orphan_proc, stop_returned >>

ctl_vars == << stop_event, graceful_stop, ctl_pc, at_call, at_set >>
src_vars == << rows, data_pos, source_calls, eos_calls >>
fetch_vars == << fetch_pc, fetch_bar >>
proc_vars == << proc_pc, proc_bar, proc_iter, proc_values >>
ind_vars == << indicators, sma, update_log, add_log >>
orphan_vars == << orphan_fetch, orphan_proc >>

\* ------------------------------------------------------- pure helpers
RECURSIVE SumSeq(_)
SumSeq(s) == IF s = <<>> THEN 0 ELSE Head(s) + SumSeq(Tail(s))

\* The elements of a sequence, as a set.
Range(s) == { s[i] : i \in 1..Len(s) }

\* BarEventMessage built from row number i of the file (engine.py:152-160).
BarOfRow(file, i) ==
  [ts_event |-> file[i].ts_event, open |-> file[i].open, high |-> file[i].high,
   low |-> file[i].low, close |-> file[i].close, volume |-> file[i].volume,
   symbol |-> file[i].symbol]

\* ReplayDataHandler.get_next_bar: read rows from the iterator until one
\* carries the handler's symbol; StopIteration and any read error give None.
\* Returns the bar (or None) and the new iterator position.
RECURSIVE get_next_bar(_, _, _)
get_next_bar(file, pos, symbol) ==
  IF pos >= Len(file) THEN [bar |-> None, pos |-> pos]
  ELSE IF file[pos + 1].malformed THEN [bar |-> None, pos |-> pos + 1]
  ELSE IF file[pos + 1].symbol = symbol
       THEN [bar |-> BarOfRow(file, pos + 1), pos |-> pos + 1]
  ELSE get_next_bar(file, pos + 1, symbol)

\* ProcessedBarEventMessage.from_bar.
from_bar(bar, indicator_values) ==
  [ts_event |-> bar.ts_event, open |-> bar.open, high |-> bar.high,
   low |-> bar.low, close |-> bar.close, volume |-> bar.volume,
   symbol |-> bar.symbol, indicators |-> indicator_values]

\* Faulty variant of DequeAppend: a plain list, nothing is ever dropped.
DequeAppendUnbounded(values, x, maxlen) == Append(values, x)

\* deque(maxlen=period).append(x).
DequeAppend(values, x, maxlen) ==
  LET v == Append(values, x)
  IN  IF Len(v) > maxlen THEN SubSeq(v, Len(v) - maxlen + 1, Len(v)) ELSE v

\* SimpleMovingAverage.update on the object's state st.
SmaUpdate(ind, st, bar) ==
  LET v == DequeAppend(st.values, bar[ind.applied_on], ind.period)
  IN  [values |-> v,
       current |-> IF Len(v) = ind.period
                   THEN [num |-> SumSeq(v), den |-> ind.period]
                   ELSE st.current]

\* SimpleMovingAverage.value.
SmaValue(st) == st.current

\* Position of `name` among the registry's keys, 0 when absent.
KeyIndex(reg, name) ==
  IF \E i \in 1..Len(reg) : reg[i][1] = name
  THEN CHOOSE i \in 1..Len(reg) : reg[i][1] = name
  ELSE 0

\* Faulty variant of add_indicator: the last registration under a name wins.
add_indicator_last_wins(reg, ind) ==
  IF KeyIndex(reg, IndicatorName(ind)) # 0
  THEN [reg EXCEPT ![KeyIndex(reg, IndicatorName(ind))] =
          <<IndicatorName(ind), ind>>]
  ELSE Append(reg, <<IndicatorName(ind), ind>>)

\* TradingEngine.add_indicator on the registry: a name already present is
\* ignored, otherwise the object is stored under its name.
add_indicator(reg, ind) ==
  IF KeyIndex(reg, IndicatorName(ind)) # 0
  THEN reg
  ELSE Append(reg, <<IndicatorName(ind), ind>>)


\* ------------------------------------------------- decisions of the code
\* Faulty variant of LoopGuard: `while True`.
LoopGuardAlways(stop) == TRUE

\* `while not self._stop_event.is_set()` (both thread loops).
LoopGuard(stop) == ~stop

\* Faulty variant of AfterFetch: on None the loop goes round again.
AfterFetchContinue(bar) == IF bar = None THEN "loop" ELSE "put"

\* _fetch_market_data after get_next_bar: `if bar is None: break`, else put.
AfterFetch(bar) == IF bar = None THEN "done" ELSE "put"

\* Queue.put on the unbounded queue.
QueuePut(q, item) == Append(q, item)

\* Faulty variant of QueueGet: the newest item leaves (a LIFO queue).
QueueGetNewest(q) ==
  [item |-> q[Len(q)], rest |-> SubSeq(q, 1, Len(q) - 1)]

\* Queue.get / get_nowait on a non-empty queue: the oldest item leaves.
QueueGet(q) == [item |-> Head(q), rest |-> Tail(q)]

\* Faulty variant of GetTimesOut: a get() without timeout never raises.
GetBlocksForever(q) == FALSE

\* Queue.get(timeout=0.02) raises Empty once the wait on an empty queue
\* has timed out.
GetTimesOut(q) == q = <<>>

\* Faulty variant of DiscardDequeued: the discard test is missing.
DiscardNever(stop, graceful) == FALSE

\* Faulty variant of DiscardDequeued: the mode flag read the wrong way round.
DiscardDequeuedInverted(stop, graceful) == stop /\ graceful

\* `if self._stop_event.is_set() and not self._graceful_stop` after a get.
DiscardDequeued(stop, graceful) == stop /\ ~graceful

\* `except Empty: if self._stop_event.is_set(): break`.
ExitOnEmpty(stop) == stop

\* The dict iterator of `for name, indicator in self.indicators.items()`
\* raises RuntimeError when the dict's size differs from the size at its
\* creation.
IterChanged(reg, it) == Len(reg) # it.used

\* Faulty variant of StopCatches: the sweep has no except clause.
StopCatchesNothing(exc) == FALSE

\* `except Empty: break` around get_nowait in stop().
StopCatches(exc) == exc = "Empty"

\* Faulty variant of ThreadExited: join(timeout=0) returns at once.
JoinWithoutWaiting(pc) == TRUE

\* Thread.join returns once the thread's target has returned or raised.
ThreadExited(pc) == pc \in {"done", "crashed"}

\* ----------------------------------------------------------------- Init
Init ==
  /\ rows \in CsvFiles
  /\ data_pos = 0
  /\ incoming = <<>>
  /\ processed = <<>>
  /\ indicators = <<>>
  /\ sma = [i \in IndicatorIds |-> [values |-> <<>>, current |-> NaN]]
  /\ stop_event = FALSE
  /\ graceful_stop = FALSE
  /\ ctl_pc = "created"
  /\ fetch_pc = "unstarted"
  /\ fetch_bar = None
  /\ proc_pc = "unstarted"
  /\ proc_bar = None
  /\ proc_iter = [used |-> 0, idx |-> 0]
  /\ proc_values = <<>>
  /\ enq_log = <<>>
  /\ deq_log = <<>>
  /\ swept = {}
  /\ update_log = <<>>
  /\ add_log = <<>>
  /\ source_calls = 0
  /\ eos_calls = 0
  /\ at_call = None
  /\ at_set = None
  /\ orphan_fetch = <<>>
  /\ orphan_proc = <<>>
  /\ stop_returned = FALSE

\* ts_event of the bars sitting in a queue, in queue order.
TsOf(q) == [i \in 1..Len(q) |-> q[i].ts_event]

\* What the history snapshots record: the inbound backlog and how many bars
\* Processing has dequeued so far.
Snapshot == [backlog |-> TsOf(incoming), ndeq |-> Len(deq_log)]

\* The snapshot taken when the stop event is set also records where
\* Ingestion stands: its position, its get_next_bar calls and its puts.
SetSnapshot ==
  [backlog |-> TsOf(incoming), ndeq |-> Len(deq_log), fetch_pc |-> fetch_pc,
   ncalls |-> source_calls, nenq |-> Len(enq_log)]

\* ------------------------------------------------------ controller thread
\* TradingEngine.add_indicator, called by the controller thread whenever it
\* is not inside connect() or stop().
AddIndicator(ind) ==
  /\ ctl_pc \in {"created", "running", "stopped"}
  /\ Len(add_log) < MaxAdds
  /\ indicators' = add_indicator(indicators, ind)
  /\ add_log' = Append(add_log, ind)
  /\ UNCHANGED << orphan_vars, stop_returned,
                  src_vars, incoming, processed, sma, update_log, ctl_vars,
                  fetch_vars, proc_vars, enq_log, deq_log, swept >>

\* connect(), lines 204-207: start FetchMarketDataThread.
ConnectFetch ==
  /\ ctl_pc = "created"
  /\ ctl_pc' = "connecting"
  /\ fetch_pc' = "loop"
  /\ UNCHANGED << orphan_vars, stop_returned,
                  src_vars, incoming, processed, ind_vars, stop_event,
                  graceful_stop, at_call, at_set, fetch_bar, proc_vars,
                  enq_log, deq_log, swept >>

\* connect(), lines 209-212: start ProcessMarketDataThread.
ConnectProc ==
  /\ ctl_pc = "connecting"
  /\ ctl_pc' = "running"
  /\ proc_pc' = "loop"
  /\ UNCHANGED << orphan_vars, stop_returned,
                  src_vars, incoming, processed, ind_vars, stop_event,
                  graceful_stop, at_call, at_set, fetch_vars, proc_bar,
                  proc_iter, proc_values, enq_log, deq_log, swept >>

\* stop(graceful), lines 261-263: the call and the write of _graceful_stop.
StopCall(graceful) ==
  /\ ctl_pc = "running"
  /\ graceful_stop' = graceful
  /\ ctl_pc' = "stop_set"
  /\ at_call' = Snapshot
  /\ UNCHANGED << orphan_vars, stop_returned,
                  src_vars, incoming, processed, ind_vars, stop_event,
                  at_set, fetch_vars, proc_vars, enq_log, deq_log, swept >>

\* stop(), lines 264-266: set the event, then branch on the mode.
StopSet ==
  /\ ctl_pc = "stop_set"
  /\ stop_event' = TRUE
  /\ ctl_pc' = IF ~graceful_stop THEN "sweep_test" ELSE "join_fetch"
  /\ at_set' = SetSnapshot
  /\ UNCHANGED << orphan_vars, stop_returned,
                  src_vars, incoming, processed, ind_vars, graceful_stop,
                  at_call, fetch_vars, proc_vars, enq_log, deq_log, swept >>

\* stop(), line 267: `while not self.incoming_bar_event_queue.empty()`.
SweepTest ==
  /\ ctl_pc = "sweep_test"
  /\ ctl_pc' = IF incoming = <<>> THEN "join_fetch" ELSE "sweep_get"
  /\ UNCHANGED << orphan_vars, stop_returned,
                  src_vars, incoming, processed, ind_vars, stop_event,
                  graceful_stop, at_call, at_set, fetch_vars, proc_vars,
                  enq_log, deq_log, swept >>

\* stop(), lines 268-271: get_nowait, leaving the loop on Empty.
SweepGet ==
  /\ ctl_pc = "sweep_get"
  /\ IF incoming = <<>>
     THEN /\ ctl_pc' = IF StopCatches("Empty") THEN "join_fetch" ELSE "raised"
          /\ UNCHANGED << incoming, swept >>
     ELSE /\ incoming' = QueueGet(incoming).rest
          /\ swept' = swept \cup {QueueGet(incoming).item.ts_event}
          /\ ctl_pc' = "sweep_test"
  /\ UNCHANGED << orphan_vars, stop_returned,
                  src_vars, processed, ind_vars, stop_event, graceful_stop,
                  at_call, at_set, fetch_vars, proc_vars, enq_log, deq_log >>

\* stop(), line 273: fetch_market_data_thread.join().
JoinFetch ==
  /\ ctl_pc = "join_fetch"
  /\ ThreadExited(fetch_pc)
  /\ ctl_pc' = "join_proc"
  /\ UNCHANGED << orphan_vars, stop_returned,
                  src_vars, incoming, processed, ind_vars, stop_event,
                  graceful_stop, at_call, at_set, fetch_vars, proc_vars,
                  enq_log, deq_log, swept >>

\* stop(), lines 274-275: process_market_data_thread.join(), then return.
JoinProc ==
  /\ ctl_pc = "join_proc"
  /\ ThreadExited(proc_pc)
  /\ ctl_pc' = "stopped"
  /\ stop_returned' = TRUE
  /\ UNCHANGED << orphan_vars,
                  src_vars, incoming, processed, ind_vars, stop_event,
                  graceful_stop, at_call, at_set, fetch_vars, proc_vars,
                  enq_log, deq_log, swept >>

\* ------------------------------------------ FetchMarketDataThread (214-223)
\* Line 217: the loop test.
FetchLoop ==
  /\ fetch_pc = "loop"
  /\ fetch_pc' = IF LoopGuard(stop_event) THEN "fetch" ELSE "done"
  /\ UNCHANGED << orphan_vars, stop_returned,
                  src_vars, incoming, processed, ind_vars, ctl_vars,
                  fetch_bar, proc_vars, enq_log, deq_log, swept >>

\* Lines 218-221: get_next_bar, and the break on None.
FetchNext ==
  /\ fetch_pc = "fetch"
  /\ LET r == get_next_bar(rows, data_pos, EngineSymbol)
     IN  /\ data_pos' = r.pos
         /\ fetch_bar' = r.bar
         /\ fetch_pc' = AfterFetch(r.bar)
         /\ source_calls' = source_calls + 1
         /\ eos_calls' = IF r.bar = None /\ eos_calls = 0
                         THEN source_calls + 1 ELSE eos_calls
  /\ UNCHANGED << orphan_vars, stop_returned,
                  rows, incoming, processed, ind_vars, ctl_vars, proc_vars,
                  enq_log, deq_log, swept >>

\* Lines 222-223: put the bar on the inbound queue.
FetchPut ==
  /\ fetch_pc = "put"
  /\ incoming' = QueuePut(incoming, fetch_bar)
  /\ enq_log' = Append(enq_log, fetch_bar.ts_event)
  /\ fetch_pc' = "loop"
  /\ UNCHANGED << orphan_vars, stop_returned,
                  src_vars, processed, ind_vars, ctl_vars, fetch_bar,
                  proc_vars, deq_log, swept >>

FetchThread == FetchLoop \/ FetchNext \/ FetchPut

\* ---------------------------------------- ProcessMarketDataThread (225-259)
\* Line 228: the loop test.
ProcLoop ==
  /\ proc_pc = "loop"
  /\ proc_pc' = IF LoopGuard(stop_event) THEN "get" ELSE "done"
  /\ UNCHANGED << orphan_vars, stop_returned,
                  src_vars, incoming, processed, ind_vars, ctl_vars,
                  fetch_vars, proc_bar, proc_iter, proc_values, enq_log,
                  deq_log, swept >>

\* Line 230: get(timeout=0.02) returns the oldest bar.
ProcGet ==
  /\ proc_pc = "get"
  /\ incoming # <<>>
  /\ proc_bar' = QueueGet(incoming).item
  /\ incoming' = QueueGet(incoming).rest
  /\ deq_log' = Append(deq_log, QueueGet(incoming).item.ts_event)
  /\ proc_pc' = "check"
  /\ UNCHANGED << orphan_vars, stop_returned,
                  src_vars, processed, ind_vars, ctl_vars, fetch_vars,
                  proc_iter, proc_values, enq_log, swept >>

\* Lines 230, 256: the timed get raises Empty.
ProcTimeout ==
  /\ proc_pc = "get"
  /\ GetTimesOut(incoming)
  /\ proc_pc' = "empty"
  /\ UNCHANGED << orphan_vars, stop_returned,
                  src_vars, incoming, processed, ind_vars, ctl_vars,
                  fetch_vars, proc_bar, proc_iter, proc_values, enq_log,
                  deq_log, swept >>

\* Lines 257-259: on Empty, leave the loop if a stop was requested.
ProcEmpty ==
  /\ proc_pc = "empty"
  /\ proc_pc' = IF ExitOnEmpty(stop_event) THEN "done" ELSE "loop"
  /\ UNCHANGED << orphan_vars, stop_returned,
                  src_vars, incoming, processed, ind_vars, ctl_vars,
                  fetch_vars, proc_bar, proc_iter, proc_values, enq_log,
                  deq_log, swept >>

\* Lines 233-237: the discard test on the bar just dequeued.
ProcCheck ==
  /\ proc_pc = "check"
  /\ proc_pc' = IF DiscardDequeued(stop_event, graceful_stop)
                THEN "done" ELSE "iter"
  /\ UNCHANGED << orphan_vars, stop_returned,
                  src_vars, incoming, processed, ind_vars, ctl_vars,
                  fetch_vars, proc_bar, proc_iter, proc_values, enq_log,
                  deq_log, swept >>

\* Lines 239-243: task_done, an empty indicator_values, and the iterator
\* over self.indicators.items().
ProcIter ==
  /\ proc_pc = "iter"
  /\ proc_values' = <<>>
  /\ proc_iter' = [used |-> Len(indicators), idx |-> 0]
  /\ proc_pc' = "next"
  /\ UNCHANGED << orphan_vars, stop_returned,
                  src_vars, incoming, processed, ind_vars, ctl_vars,
                  fetch_vars, proc_bar, enq_log, deq_log, swept >>

\* Faulty variant of ProcNext: value() is read before update(bar) is called.
ProcNextValueFirst ==
  /\ proc_pc = "next"
  /\ IF IterChanged(indicators, proc_iter)
     THEN /\ proc_pc' = "crashed"
          /\ UNCHANGED << sma, update_log, proc_iter, proc_values >>
     ELSE IF proc_iter.idx >= Len(indicators)
     THEN /\ proc_pc' = "emit"
          /\ UNCHANGED << sma, update_log, proc_iter, proc_values >>
     ELSE LET name == indicators[proc_iter.idx + 1][1]
              ind == indicators[proc_iter.idx + 1][2]
              st == SmaUpdate(ind, sma[ind.id], proc_bar)
          IN  /\ sma' = [sma EXCEPT ![ind.id] = st]
              /\ update_log' = Append(update_log, <<ind.id, proc_bar.ts_event>>)
              /\ proc_values' = Append(proc_values,
                                       <<name, SmaValue(sma[ind.id])>>)
              /\ proc_iter' = [proc_iter EXCEPT !.idx = @ + 1]
              /\ proc_pc' = "next"
  /\ UNCHANGED << orphan_vars, stop_returned,
                  src_vars, incoming, processed, indicators, add_log,
                  ctl_vars, fetch_vars, proc_bar, enq_log, deq_log, swept >>

\* Lines 243-245: one step of the for loop: the iterator raises, ends, or
\* yields the next item, on which update then value are called.
ProcNext ==
  /\ proc_pc = "next"
  /\ IF IterChanged(indicators, proc_iter)
     THEN /\ proc_pc' = "crashed"
          /\ UNCHANGED << sma, update_log, proc_iter, proc_values >>
     ELSE IF proc_iter.idx >= Len(indicators)
     THEN /\ proc_pc' = "emit"
          /\ UNCHANGED << sma, update_log, proc_iter, proc_values >>
     ELSE LET name == indicators[proc_iter.idx + 1][1]
              ind == indicators[proc_iter.idx + 1][2]
              st == SmaUpdate(ind, sma[ind.id], proc_bar)
          IN  /\ sma' = [sma EXCEPT ![ind.id] = st]
              /\ update_log' = Append(update_log, <<ind.id, proc_bar.ts_event>>)
              /\ proc_values' = Append(proc_values, <<name, SmaValue(st)>>)
              /\ proc_iter' = [proc_iter EXCEPT !.idx = @ + 1]
              /\ proc_pc' = "next"
  /\ UNCHANGED << orphan_vars, stop_returned,
                  src_vars, incoming, processed, indicators, add_log,
                  ctl_vars, fetch_vars, proc_bar, enq_log, deq_log, swept >>

\* Lines 247-254: build the ProcessedBarEventMessage and put it on the
\* outbound queue.
ProcEmit ==
  /\ proc_pc = "emit"
  /\ processed' = QueuePut(processed, from_bar(proc_bar, proc_values))
  /\ proc_pc' = "loop"
  /\ UNCHANGED << orphan_vars, stop_returned,
                  src_vars, incoming, ind_vars, ctl_vars, fetch_vars,
                  proc_bar, proc_iter, proc_values, enq_log, deq_log, swept >>

ProcThread ==
  \/ ProcLoop \/ ProcGet \/ ProcTimeout \/ ProcEmpty
  \/ ProcCheck \/ ProcIter \/ ProcNext \/ ProcEmit

\* ------------------------------------------------- connect() called again
\* connect() has no guard (lines 203-212): called on an engine that was
\* already connected it starts two more threads and overwrites the handles,
\* so the threads started before stay alive but can no longer be joined.
ReconnectFetch ==
  /\ ctl_pc \in {"running", "stopped"}
  /\ Len(orphan_fetch) + 1 < MaxConnects
  /\ orphan_fetch' = Append(orphan_fetch, [pc |-> fetch_pc, bar |-> fetch_bar])
  /\ fetch_pc' = "loop"
  /\ fetch_bar' = None
  /\ ctl_pc' = "reconnecting"
  /\ UNCHANGED << orphan_proc, stop_returned, src_vars, incoming, processed,
                  ind_vars, stop_event, graceful_stop, at_call, at_set,
                  proc_vars, enq_log, deq_log, swept >>

ReconnectProc ==
  /\ ctl_pc = "reconnecting"
  /\ orphan_proc' = Append(orphan_proc, [pc |-> proc_pc, bar |-> proc_bar,
                                         iter |-> proc_iter,
                                         values |-> proc_values])
  /\ proc_pc' = "loop"
  /\ proc_bar' = None
  /\ proc_iter' = [used |-> 0, idx |-> 0]
  /\ proc_values' = <<>>
  /\ ctl_pc' = "running"
  /\ UNCHANGED << orphan_fetch, stop_returned, src_vars, incoming, processed,
                  ind_vars, stop_event, graceful_stop, at_call, at_set,
                  fetch_vars, enq_log, deq_log, swept >>

\* An orphaned FetchMarketDataThread runs the same loop (lines 214-223).
OrphanFetchLoop(i) ==
  /\ orphan_fetch[i].pc = "loop"
  /\ orphan_fetch' = [orphan_fetch EXCEPT ![i].pc =
                        IF LoopGuard(stop_event) THEN "fetch" ELSE "done"]
  /\ UNCHANGED << orphan_proc, stop_returned, src_vars, incoming, processed,
                  ind_vars, ctl_vars, fetch_vars, proc_vars, enq_log,
                  deq_log, swept >>

OrphanFetchNext(i) ==
  /\ orphan_fetch[i].pc = "fetch"
  /\ LET r == get_next_bar(rows, data_pos, EngineSymbol)
     IN  /\ data_pos' = r.pos
         /\ orphan_fetch' = [orphan_fetch EXCEPT
                               ![i] = [pc |-> AfterFetch(r.bar), bar |-> r.bar]]
         /\ source_calls' = source_calls + 1
         /\ eos_calls' = IF r.bar = None /\ eos_calls = 0
                         THEN source_calls + 1 ELSE eos_calls
  /\ UNCHANGED << orphan_proc, stop_returned, rows, incoming, processed,
                  ind_vars, ctl_vars, fetch_vars, proc_vars, enq_log,
                  deq_log, swept >>

OrphanFetchPut(i) ==
  /\ orphan_fetch[i].pc = "put"
  /\ incoming' = QueuePut(incoming, orphan_fetch[i].bar)
  /\ enq_log' = Append(enq_log, orphan_fetch[i].bar.ts_event)
  /\ orphan_fetch' = [orphan_fetch EXCEPT ![i].pc = "loop"]
  /\ UNCHANGED << orphan_proc, stop_returned, src_vars, processed, ind_vars,
                  ctl_vars, fetch_vars, proc_vars, deq_log, swept >>

OrphanFetchThread(i) ==
  OrphanFetchLoop(i) \/ OrphanFetchNext(i) \/ OrphanFetchPut(i)

\* An orphaned ProcessMarketDataThread runs the same loop (lines 225-259).
OrphanProcLoop(i) ==
  /\ orphan_proc[i].pc = "loop"
  /\ orphan_proc' = [orphan_proc EXCEPT ![i].pc =
                       IF LoopGuard(stop_event) THEN "get" ELSE "done"]
  /\ UNCHANGED << orphan_fetch, stop_returned, src_vars, incoming, processed,
                  ind_vars, ctl_vars, fetch_vars, proc_vars, enq_log,
                  deq_log, swept >>

OrphanProcGet(i) ==
  /\ orphan_proc[i].pc = "get"
  /\ incoming # <<>>
  /\ orphan_proc' = [orphan_proc EXCEPT ![i].pc = "check",
                                        ![i].bar = QueueGet(incoming).item]
  /\ incoming' = QueueGet(incoming).rest
  /\ deq_log' = Append(deq_log, QueueGet(incoming).item.ts_event)
  /\ UNCHANGED << orphan_fetch, stop_returned, src_vars, processed, ind_vars,
                  ctl_vars, fetch_vars, proc_vars, enq_log, swept >>

OrphanProcTimeout(i) ==
  /\ orphan_proc[i].pc = "get"
  /\ GetTimesOut(incoming)
  /\ orphan_proc' = [orphan_proc EXCEPT ![i].pc = "empty"]
  /\ UNCHANGED << orphan_fetch, stop_returned, src_vars, incoming, processed,
                  ind_vars, ctl_vars, fetch_vars, proc_vars, enq_log,
                  deq_log, swept >>

OrphanProcEmpty(i) ==
  /\ orphan_proc[i].pc = "empty"
  /\ orphan_proc' = [orphan_proc EXCEPT ![i].pc =
                       IF ExitOnEmpty(stop_event) THEN "done" ELSE "loop"]
  /\ UNCHANGED << orphan_fetch, stop_returned, src_vars, incoming, processed,
                  ind_vars, ctl_vars, fetch_vars, proc_vars, enq_log,
                  deq_log, swept >>

OrphanProcCheck(i) ==
  /\ orphan_proc[i].pc = "check"
  /\ orphan_proc' = [orphan_proc EXCEPT ![i].pc =
                       IF DiscardDequeued(stop_event, graceful_stop)
                       THEN "done" ELSE "iter"]
  /\ UNCHANGED << orphan_fetch, stop_returned, src_vars, incoming, processed,
                  ind_vars, ctl_vars, fetch_vars, proc_vars, enq_log,
                  deq_log, swept >>

OrphanProcIter(i) ==
  /\ orphan_proc[i].pc = "iter"
  /\ orphan_proc' = [orphan_proc EXCEPT
                       ![i].values = <<>>,
                       ![i].iter = [used |-> Len(indicators), idx |-> 0],
                       ![i].pc = "next"]
  /\ UNCHANGED << orphan_fetch, stop_returned, src_vars, incoming, processed,
                  ind_vars, ctl_vars, fetch_vars, proc_vars, enq_log,
                  deq_log, swept >>

OrphanProcNext(i) ==
  /\ orphan_proc[i].pc = "next"
  /\ IF IterChanged(indicators, orphan_proc[i].iter)
     THEN /\ orphan_proc' = [orphan_proc EXCEPT ![i].pc = "crashed"]
          /\ UNCHANGED << sma, update_log >>
     ELSE IF orphan_proc[i].iter.idx >= Len(indicators)
     THEN /\ orphan_proc' = [orphan_proc EXCEPT ![i].pc = "emit"]
          /\ UNCHANGED << sma, update_log >>
     ELSE LET name == indicators[orphan_proc[i].iter.idx + 1][1]
              ind == indicators[orphan_proc[i].iter.idx + 1][2]
              st == SmaUpdate(ind, sma[ind.id], orphan_proc[i].bar)
          IN  /\ sma' = [sma EXCEPT ![ind.id] = st]
              /\ update_log' = Append(update_log,
                                      <<ind.id, orphan_proc[i].bar.ts_event>>)
              /\ orphan_proc' = [orphan_proc EXCEPT
                                   ![i].values = Append(@, <<name, SmaValue(st)>>),
                                   ![i].iter.idx = @ + 1]
  /\ UNCHANGED << orphan_fetch, stop_returned, src_vars, incoming, processed,
                  indicators, add_log, ctl_vars, fetch_vars, proc_vars,
                  enq_log, deq_log, swept >>

OrphanProcEmit(i) ==
  /\ orphan_proc[i].pc = "emit"
  /\ processed' = QueuePut(processed,
                           from_bar(orphan_proc[i].bar, orphan_proc[i].values))
  /\ orphan_proc' = [orphan_proc EXCEPT ![i].pc = "loop"]
  /\ UNCHANGED << orphan_fetch, stop_returned, src_vars, incoming, ind_vars,
                  ctl_vars, fetch_vars, proc_vars, enq_log, deq_log, swept >>

OrphanProcThread(i) ==
  \/ OrphanProcLoop(i) \/ OrphanProcGet(i) \/ OrphanProcTimeout(i)
  \/ OrphanProcEmpty(i) \/ OrphanProcCheck(i) \/ OrphanProcIter(i)
  \/ OrphanProcNext(i) \/ OrphanProcEmit(i)

\* ---------------------------------------------------------- specification
\* The body of stop() once it has been called.
StopBody == StopSet \/ SweepTest \/ SweepGet \/ JoinFetch \/ JoinProc

Controller ==
  \/ \E ind \in IndicatorPool : AddIndicator(ind)
  \/ ConnectFetch
  \/ ConnectProc
  \/ \E graceful \in BOOLEAN : StopCall(graceful)
  \/ StopBody

Next == Controller \/ FetchThread \/ ProcThread

Spec == Init /\ [][Next]_vars

\* The threads are scheduled fairly: a started thread that can take a step
\* eventually takes one, and a controller inside connect() or stop() runs on.
FairSpec ==
  /\ Spec
  /\ WF_vars(FetchThread)
  /\ WF_vars(ProcThread)
  /\ WF_vars(ConnectProc \/ StopBody)

\* The engine used as its documentation asks: every add_indicator call is
\* made before connect().
FixedRegistryNext ==
  \/ \E ind \in IndicatorPool : ctl_pc = "created" /\ AddIndicator(ind)
  \/ ConnectFetch
  \/ ConnectProc
  \/ \E graceful \in BOOLEAN : StopCall(graceful)
  \/ StopBody
  \/ FetchThread
  \/ ProcThread

FixedRegistrySpec == Init /\ [][FixedRegistryNext]_vars

\* The engine with connect() callable at any time the controller is idle,
\* as the code allows, on an engine with no indicator registered.
ReconnectNext ==
  \/ ConnectFetch
  \/ ConnectProc
  \/ ReconnectFetch
  \/ ReconnectProc
  \/ \E graceful \in BOOLEAN : StopCall(graceful)
  \/ StopBody
  \/ FetchThread
  \/ ProcThread
  \/ \E i \in 1..Len(orphan_fetch) : OrphanFetchThread(i)
  \/ \E i \in 1..Len(orphan_proc) : OrphanProcThread(i)

ReconnectSpec == Init /\ [][ReconnectNext]_vars

\* -------------------------------------- SimpleMovingAverage on its own
\* The attributes of a bar an average can be applied on (engine.py:86).
SmaFields == {"open", "high", "low", "close", "volume"}

\* A file of MaxUpdates bars of the engine's symbol, and its bars.
SmaFile == [i \in 1..MaxUpdates |-> CsvRow("bar", i)]
SmaBars == { BarOfRow(SmaFile, i) : i \in 1..MaxUpdates }

\* SimpleMovingAverage(period, applied_on) for every period and attribute.
SmaPool ==
  { [id |-> 1, period |-> p, applied_on |-> f] :
      p \in 1..MaxPeriod, f \in SmaFields }

\* An engine on which one SimpleMovingAverage has been registered and
\* nothing else has happened (lines 78-84, 171-201).
SmaInit ==
  /\ rows = SmaFile
  /\ \E ind \in SmaPool :
        /\ indicators = add_indicator(<<>>, ind)
        /\ add_log = <<ind>>
        /\ sma = [i \in {ind.id} |-> [values |-> <<>>, current |-> NaN]]
  /\ data_pos = 0
  /\ incoming = <<>>
  /\ processed = <<>>
  /\ stop_event = FALSE
  /\ graceful_stop = FALSE
  /\ ctl_pc = "created"
  /\ fetch_pc = "unstarted"
  /\ fetch_bar = None
  /\ proc_pc = "unstarted"
  /\ proc_bar = None
  /\ proc_iter = [used |-> 0, idx |-> 0]
  /\ proc_values = <<>>
  /\ enq_log = <<>>
  /\ deq_log = <<>>
  /\ swept = {}
  /\ update_log = <<>>
  /\ source_calls = 0
  /\ eos_calls = 0
  /\ at_call = None
  /\ at_set = None
  /\ orphan_fetch = <<>>
  /\ orphan_proc = <<>>
  /\ stop_returned = FALSE

\* One call indicator.update(bar) on the registered object (lines 85-90),
\* with any bar, in any order.
SmaFeed(bar) ==
  /\ Len(update_log) < MaxUpdates
  /\ LET ind == indicators[1][2]
     IN  /\ sma' = [sma EXCEPT ![ind.id] = SmaUpdate(ind, sma[ind.id], bar)]
         /\ update_log' = Append(update_log, <<ind.id, bar.ts_event>>)
  /\ UNCHANGED << orphan_vars, stop_returned, src_vars, incoming, processed,
                  indicators, add_log, ctl_vars, fetch_vars, proc_vars,
                  enq_log, deq_log, swept >>

SmaNext == \E bar \in SmaBars : SmaFeed(bar)

SmaSpec == SmaInit /\ [][SmaNext]_vars

\* ------------------------------------------------------------ observers
\* ts_event of the ProcessedBarEventMessages on the outbound queue, in order.
OutTs == TsOf(processed)

\* The bars get_next_bar yields from position pos on, until it returns None.
RECURSIVE SourceBars(_, _, _)
SourceBars(file, pos, symbol) ==
  LET r == get_next_bar(file, pos, symbol)
  IN  IF r.bar = None THEN <<>>
      ELSE <<r.bar>> \o SourceBars(file, r.pos, symbol)

\* a is b with some elements left out (same relative order).
RECURSIVE IsSubsequence(_, _)
IsSubsequence(a, b) ==
  IF a = <<>> THEN TRUE
  ELSE IF b = <<>> THEN FALSE
  ELSE IF Head(a) = Head(b) THEN IsSubsequence(Tail(a), Tail(b))
  ELSE IsSubsequence(a, Tail(b))

NoDuplicates(s) == \A i, j \in 1..Len(s) : s[i] = s[j] => i = j

StopCalled == at_call # None
StopSignalled == at_set # None

\* ts of the bars Processing dequeued after the stop event was set.
DequeuedAfterSet ==
  { deq_log[i] : i \in (at_set.ndeq + 1)..Len(deq_log) }

\* ts of the bars Indicator.update has been called with.
UpdatedTs == { update_log[i][2] : i \in 1..Len(update_log) }

\* --------------------------------------------------------------- claims

\* C1 (as claimed): if K bars sit in the inbound queue and Processing has
\* dequeued none when stop(graceful=True) is called, then once stop has
\* returned all K bars are on the outbound queue.
C1_GracefulStopDrainsBacklog ==
  (ctl_pc = "stopped" /\ graceful_stop /\ at_call.ndeq = 0)
    => Range(at_call.backlog) \subseteq Range(OutTs)

\* C2 (as claimed, in the case where Ingestion reached end-of-stream, so that
\* all N bars of the source entered the inbound queue): after connect() and
\* stop(graceful=True) the outbound queue holds exactly the N bars of the
\* source, in source order.
C2_OrderPreservation ==
  (ctl_pc = "stopped" /\ graceful_stop /\ eos_calls # 0)
    => OutTs = TsOf(SourceBars(rows, 0, EngineSymbol))

\* C3: when stop() has returned, for either mode, both pipeline threads have
\* exited.
C3_StopIsSynchronous ==
  ctl_pc = "stopped"
    => /\ fetch_pc \in {"done", "crashed"}
       /\ proc_pc \in {"done", "crashed"}

\* C3 witness: stop() has returned after bars went through the pipeline.
C3_Witness ==
  /\ ctl_pc = "stopped"
  /\ Len(processed) > 0
  /\ ~graceful_stop

\* C4: under fair scheduling, once stop() has been called (either mode, any
\* queue contents, source exhausted or not) both threads eventually exit and
\* stop() eventually returns.
C4_ShutdownCompletes ==
  (ctl_pc = "stop_set")
    ~> (ctl_pc = "stopped" /\ fetch_pc = "done"
        /\ proc_pc \in {"done", "crashed"})

\* C4 witness: stop() is waiting in join while Processing has just timed out
\* on an empty inbound queue and the source is not exhausted.
C4_Witness ==
  /\ ctl_pc \in {"join_fetch", "join_proc"}
  /\ proc_pc = "empty"
  /\ incoming = <<>>
  /\ eos_calls = 0

\* C5 (as claimed): if K >= 1 bars sit in the inbound queue and Processing
\* has dequeued none when stop(graceful=False) is called, then fewer than K
\* ProcessedBarEventMessages are produced and stop() raises no error.
C5_ImmediateStopAsClaimed ==
  (StopCalled /\ ~graceful_stop /\ at_call.ndeq = 0
     /\ Len(at_call.backlog) >= 1)
    => /\ Len(processed) < Len(at_call.backlog)
       /\ ctl_pc # "raised"

\* C5 (amended): if K >= 1 bars sit in the inbound queue and Processing has
\* dequeued none when stop(graceful=False) sets the stop event, then fewer
\* than K ProcessedBarEventMessages are produced and stop() raises no error.
C5_ImmediateStopDiscardsBacklog ==
  (StopSignalled /\ ~graceful_stop /\ at_set.ndeq = 0
     /\ Len(at_set.backlog) >= 1)
    => /\ Len(processed) < Len(at_set.backlog)
       /\ ctl_pc # "raised"

\* C5 witness: an immediate stop that found two bars waiting and none
\* dequeued has returned.
C5_Witness ==
  /\ ctl_pc = "stopped"
  /\ ~graceful_stop
  /\ at_set.ndeq = 0
  /\ Len(at_set.backlog) >= 2

\* C6: under immediate stop, a bar that Processing dequeues after the stop
\* event was set is never passed to an indicator and never emitted, and
\* Processing is at the discard test or has terminated.
C6_NoProcessingAfterImmediateStop ==
  (StopSignalled /\ ~graceful_stop)
    => \A ts \in DequeuedAfterSet :
         /\ ts \notin UpdatedTs
         /\ ts \notin Range(OutTs)
         /\ proc_pc \in {"check", "done"}

\* C6 witness: Processing dequeued a bar after an immediate stop was
\* signalled, and has terminated.
C6_Witness ==
  /\ StopSignalled
  /\ ~graceful_stop
  /\ DequeuedAfterSet # {}
  /\ proc_pc = "done"
  /\ Len(indicators) > 0

\* C7: in every state the outbound bars are, in order, a selection of the
\* bars Ingestion enqueued (same relative order), and no bar appears twice.
C7_OrderedAtMostOnce ==
  /\ IsSubsequence(OutTs, enq_log)
  /\ NoDuplicates(OutTs)

\* C7 witness: two bars are on the outbound queue after an immediate stop
\* has returned.
C7_Witness ==
  /\ Len(processed) >= 2
  /\ ctl_pc = "stopped"
  /\ ~graceful_stop

\* C8 (as claimed): when stop() has returned, every bar that entered the
\* inbound queue has been emitted or has been removed from the queue without
\* processing (by the sweep or by Processing); none is left in the queue.
C8_BarAccounting ==
  ctl_pc = "stopped"
    => \A ts \in Range(enq_log) :
         \/ ts \in Range(OutTs)
         \/ ts \in swept
         \/ ts \in Range(deq_log)

\* C9: after any sequence of add_indicator calls the registry holds, for
\* each name registered, exactly one entry, and it is the first object
\* registered under that name.
C9_FirstRegistrationKept ==
  /\ \A i \in 1..Len(add_log) :
       LET name == IndicatorName(add_log[i])
           first == CHOOSE j \in 1..Len(add_log) :
                      /\ IndicatorName(add_log[j]) = name
                      /\ \A k \in 1..(j - 1) : IndicatorName(add_log[k]) # name
       IN  /\ KeyIndex(indicators, name) # 0
           /\ indicators[KeyIndex(indicators, name)][2] = add_log[first]
  /\ \A i, j \in 1..Len(indicators) :
       indicators[i][1] = indicators[j][1] => i = j
  /\ \A i \in 1..Len(indicators) :
       \E j \in 1..Len(add_log) : IndicatorName(add_log[j]) = indicators[i][1]

\* C9 witness: two distinct objects were registered under one name.
C9_Witness ==
  \E i, j \in 1..Len(add_log) :
    /\ i < j
    /\ add_log[i] # add_log[j]
    /\ IndicatorName(add_log[i]) = IndicatorName(add_log[j])

\* C10: once get_next_bar has returned None to Ingestion, Ingestion has
\* terminated and get_next_bar is never called by it again.
C10_EndOfStreamIsFinal ==
  /\ [](eos_calls # 0 => fetch_pc = "done")
  /\ [][eos_calls # 0 => source_calls' = source_calls]_vars

\* C10 witness: the source was exhausted after yielding a bar, and a stop
\* has since been requested and completed.
C10_Witness ==
  /\ eos_calls > 1
  /\ ctl_pc = "stopped"


\* A thread that was started and has not left its loop.
Alive(pc) == pc \notin {"unstarted", "done", "crashed"}

\* Number of live threads among the one the engine holds a handle to and the
\* ones whose handle was overwritten.
LiveThreads(pc, orphans) ==
  (IF Alive(pc) THEN 1 ELSE 0)
  + Cardinality({i \in DOMAIN orphans : Alive(orphans[i].pc)})

\* C11: for any sequence of connect() and stop() calls, at most one Ingestion
\* context and at most one Processing context are alive, so the bar source is
\* pulled by a single consumer.
C11_SingleContexts ==
  /\ LiveThreads(fetch_pc, orphan_fetch) <= 1
  /\ LiveThreads(proc_pc, orphan_proc) <= 1


\* The arithmetic mean of a non-empty sequence, as an exact rational.
MeanOf(s) == [num |-> SumSeq(s), den |-> Len(s)]

\* In SmaSpec: the object under test and the samples fed to it so far.
SmaUnderTest == indicators[1][2]
SmaFed ==
  [i \in 1..Len(update_log) |->
     SmaFile[update_log[i][2]][SmaUnderTest.applied_on]]

\* C12: a simple moving average of period P is undefined after k < P updates
\* and, after k >= P updates, is the arithmetic mean of the last P values of
\* its field; its buffer never holds more than P samples.
C12_SmaCorrect ==
  LET P == SmaUnderTest.period
      k == Len(SmaFed)
      st == sma[SmaUnderTest.id]
  IN  /\ Len(st.values) <= P
      /\ SmaValue(st) = IF k < P THEN NaN
                        ELSE MeanOf(SubSeq(SmaFed, k - P + 1, k))

\* The example of the specification: period 3 on closes 10, 20, 30, 40 has
\* reached its fourth value, 30.
C12_Witness ==
  /\ SmaUnderTest.period = 3
  /\ SmaUnderTest.applied_on = "close"
  /\ SmaFed = <<10, 20, 30, 40>>
  /\ SmaValue(sma[SmaUnderTest.id]) # NaN
  /\ SmaValue(sma[SmaUnderTest.id]).num = 30 * SmaValue(sma[SmaUnderTest.id]).den


\* C13: the registry read by Processing is a snapshot: whatever the
\* interleaving of add_indicator calls with the running pipeline, the registry
\* is never mutated while Processing is iterating over it for a bar.
C13_RegistryNotMutatedWhileIterating ==
  [][proc_pc = "next" => indicators' = indicators]_vars


\* The value a moving average holds once it has been updated with the first
\* k emitted bars, from the rows of the file.
ExpectedSma(ind, k) ==
  IF k < ind.period THEN NaN
  ELSE MeanOf([i \in 1..ind.period |->
                 rows[OutTs[k - ind.period + i]][ind.applied_on]])

\* C14: with the registry fixed before connect(), Processing calls update on
\* each registered indicator exactly once per processed bar, in registration
\* order and in bar order, and reads value after that update: the k-th
\* emitted bar carries one entry per registered indicator, each reflecting
\* exactly the first k bars.
C14_IndicatorContract ==
  LET R == Len(indicators)
  IN  /\ \A n \in 1..Len(update_log) :
           update_log[n] = << indicators[((n - 1) % R) + 1][2].id,
                              deq_log[((n - 1) \div R) + 1] >>
      /\ \A k \in 1..Len(processed) :
           /\ processed[k].indicators =
                [j \in 1..R |-> << indicators[j][1],
                                   ExpectedSma(indicators[j][2], k) >>]
           /\ \A j \in 1..R :
                Cardinality({ n \in 1..Len(update_log) :
                                update_log[n] = << indicators[j][2].id,
                                                   OutTs[k] >> }) = 1

\* Two indicators are registered and two bars have been emitted.
C14_Witness ==
  /\ Len(indicators) = 2
  /\ Len(processed) = 2
  /\ Len(update_log) = 4


\* C15 as claimed: after the stop signal has been set, Ingestion enqueues at
\* most one further bar and starts no new fetch from the bar source.
C15_NoFetchStartsAfterStop ==
  /\ [](StopSignalled => Len(enq_log) - at_set.nenq <= 1)
  /\ [][stop_event => source_calls' = source_calls]_vars

\* C15, amended: after the stop signal has been set no loop test of Ingestion
\* passes; Ingestion makes at most one further get_next_bar call and at most
\* one further put, those of the iteration whose loop test had passed when
\* the signal was set.
C15_StopObservedAtLoopTop ==
  /\ [](StopSignalled =>
          /\ Len(enq_log) - at_set.nenq <= 1
          /\ source_calls - at_set.ncalls <= 1
          /\ source_calls > at_set.ncalls => at_set.fetch_pc = "fetch"
          /\ Len(enq_log) > at_set.nenq => at_set.fetch_pc \in {"fetch", "put"})
  /\ [][stop_event /\ fetch_pc = "loop" => fetch_pc' # "fetch"]_vars

\* The signal was set between Ingestion's loop test and its get_next_bar
\* call, and the bar of that iteration has been fetched and enqueued since.
C15_Witness ==
  /\ StopSignalled
  /\ at_set.fetch_pc = "fetch"
  /\ source_calls = at_set.ncalls + 1
  /\ Len(enq_log) = at_set.nenq + 1
  /\ fetch_pc = "done"


\* C16: Processing exits only on a stop request: in every reachable state,
\* if the Processing thread has terminated then the stop signal is set
\* (end of stream and an empty inbound queue never end it by themselves).
C16_ProcessingExitsOnlyOnStop ==
  ThreadExited(proc_pc) => stop_event


\* The bar Processing holds between its get and its put on the outbound queue.
InProcessing(ts) ==
  /\ proc_pc \in {"check", "iter", "next", "emit"}
  /\ proc_bar.ts_event = ts

\* C17: under a single stop(graceful=true) Processing never discards: every
\* bar it has removed from the inbound queue is emitted (or is the bar it is
\* working on and will emit).
C17_GracefulNeverDiscards ==
  (StopCalled /\ graceful_stop) =>
    \A ts \in Range(deq_log) : ts \in Range(OutTs) \/ InProcessing(ts)


\* C18: in every reachable state, under either stop mode, the bars on the
\* outbound queue are a gap-free prefix of the bars Ingestion enqueued.
C18_OutboundIsPrefix ==
  /\ Len(OutTs) <= Len(enq_log)
  /\ OutTs = SubSeq(enq_log, 1, Len(OutTs))

\* An immediate stop has swept a bar out of the inbound queue after an
\* earlier bar had been emitted.
C18_Witness ==
  /\ swept # {}
  /\ Len(processed) >= 1
  /\ ctl_pc = "stopped"


\* C19: if stop() is never called then, the threads being scheduled fairly,
\* every bar Ingestion enqueues is eventually emitted.
C19_EveryEnqueuedBarEmitted ==
  \A ts \in 1..MaxRows :
    (ts \in Range(enq_log)) ~> (ts \in Range(OutTs) \/ StopCalled)


\* C20: Stopped is terminal and quiescent: the stop signal is never cleared
\* once set, and once a stop() call has returned no further bar is fetched,
\* enqueued or emitted, even if connect() is called again.
C20_StoppedIsTerminal ==
  [][/\ stop_event => stop_event'
     /\ stop_returned => /\ source_calls' = source_calls
                         /\ enq_log' = enq_log
                         /\ processed' = processed]_vars

=============================================================================
